---- MODULE Spec2Model ----
(***************************************************************************)
(* Model of src/main.py: the provider registry (ProviderManager), the      *)
(* fallback orchestrator (generate_image_with_fallback and                 *)
(* generate_text_with_fallback), the per-provider usage statistics         *)
(* (AIProvider.update_stats) and the command handlers that walk the        *)
(* registry themselves (genfast_command, genall_command, askall_command).  *)
(*                                                                         *)
(* The orchestrator works on whatever self.image_providers and             *)
(* self.text_providers hold, so it is checked over every registry of at    *)
(* most MaxProviders providers with priorities in 1..MaxPriority, given in *)
(* any registration order and sorted the way _init_providers sorts them.   *)
(* Whether the fixed list of lines 88-148 can itself be constructed is a   *)
(* separate question from what the orchestrator does with a registry.      *)
(*                                                                         *)
(* Updates are handled one at a time (Application.builder()...build() at   *)
(* line 1661 leaves concurrent_updates off), so one command is in flight   *)
(* at any moment; its loop is modelled one iteration per step.             *)
(*                                                                         *)
(* Specifications:                                                         *)
(*   Spec         every command over every small registry                  *)
(*   WideSpec     the same commands over registries longer than the        *)
(*                slices [:3] and [:5]                                     *)
(*   AwaitSpec    generate calls with the await split into invocation and  *)
(*                completion, with stalled attempts and cancellation       *)
(*   ConcSpec     two generate calls interleaved at every await            *)
(*   HistorySpec  UserSession.add_to_history on the sessions of the users  *)
(*   BuildSpec    ProviderManager() building the registry from the list    *)
(*                literals, as written and with entries taken out          *)
(*   AttemptSpec  the generate methods of each provider class called on an *)
(*                object directly                                          *)
(*   IntrospectSpec  the commands together with stats_command and          *)
(*                providers_command                                        *)
(*   HandlerSpec  the ten generation commands from the update received to  *)
(*                the last message sent                                    *)
(*   PreviewSpec  add_to_history with results around 100 characters        *)
(*   ChatSpec     one more command on a process where a user has a history *)
(*   HealthSpec   the same with the health server answering beside it      *)
(***************************************************************************)
EXTENDS Integers, Sequences, FiniteSets, TLC

VARIABLES
    image_providers,  \* ProviderManager.image_providers, after the sort
    text_providers,   \* ProviderManager.text_providers, after the sort
    stats,            \* provider name -> AIProvider.stats
    attempts,         \* provider name -> times generate_image/generate_text was invoked
    now,              \* the clock datetime.now() reads
    pc,               \* "idle", "running" or "done": the command in flight
    op,               \* which operation is in flight
    i,                \* position of the for loop in its provider list (1-based)
    log,              \* the attempts of the operation in flight, in order
    last,             \* what the latest attempt of the operation produced
    ret,              \* what the operation returned
    reply,            \* what a command handler ended with
    stats0,           \* stats as they were when the operation started
    calls,            \* operations started so far
    results,          \* the results / responses list a command handler collects
    user_sessions,    \* user id -> UserSession (the dict of line 1112)
    other,            \* a second generate call, in flight beside the first
    boot,             \* process start: the configuration and the list being built
    probe,            \* the latest calls made on an object directly, with what they returned
    handler           \* the update a command handler is on: command, user, messages sent

vars == <<image_providers, text_providers, stats, attempts, now,
          pc, op, i, log, last, ret, reply, stats0, calls,
          results, user_sessions, other, boot, probe, handler>>

\* What the steps of the command in flight leave alone.
aside == <<user_sessions, other, boot, probe, handler>>

registry == <<image_providers, text_providers>>

----------------------------------------------------------------------------
(* Bounds of the model *)

MaxProviders == 3
MaxPriority == 2
MaxCalls == 2
\* users with a session, and add_to_history calls followed per session
MaxUsers == 2
MaxEntries == 60
\* entries of the configuration a reduced deployment keeps, per capability
MaxKept == 2

----------------------------------------------------------------------------
(* Constants of the program *)

\* genfast_command walks image_providers[:3]
FastN == 3
\* askall_command walks text_providers[:5]
AskAllN == 5
\* add_to_history keeps history[-50:]
HistoryLimit == 50
\* add_to_history stores result[:100]
PreviewLen == 100
\* RuleBasedProvider.generate_text chooses among three response templates
Templates == 3

ImageNames == <<"I1", "I2", "I3", "I4", "I5", "I6">>
TextNames == <<"T1", "T2", "T3", "T4", "T5", "T6">>

AllFailedName == "All providers failed"

----------------------------------------------------------------------------
(* Providers *)

\* AIProvider.__init__: name, provider_type, priority; kind stands for the class.
\*   "generic"  any AIProvider subclass: its attempt may return a value,
\*              return None, return an empty value, or raise
\*   "backstop" PILImageProvider (image) or RuleBasedProvider (text)
Kinds == {"generic", "backstop"}

AIProvider(name, provider_type, priority, kind) ==
    [name |-> name, ptype |-> provider_type, priority |-> priority, kind |-> kind]

\* self.stats = {"success": 0, "failure": 0, "last_used": None}
\* (last_used is <<>> for None and <<t>> for a timestamp t)
InitialStats == [success |-> 0, failure |-> 0, last_used |-> <<>>]

NameOf(ptype, k) == IF ptype = "image" THEN ImageNames[k] ELSE TextNames[k]

\* What an attempt can produce.
Value(name) == [tag |-> "value", by |-> name]
NoneValue == [tag |-> "none", by |-> "-"]
EmptyValue == [tag |-> "empty", by |-> "-"]
Raised == [tag |-> "raise", by |-> "-"]

\* PILImageProvider.generate_image: the PNG bytes, or None when anything in
\* the try block raises.
PILOutcomes(p) == {Value(p.name), NoneValue}

\* RuleBasedProvider.generate_text: one of three non-empty strings, or the
\* non-empty string of the except branch.
RuleBasedOutcomes(p) == {Value(p.name)}

\* The abstract generate_image / generate_text of any other provider.
GenericOutcomes(p) == {Value(p.name), NoneValue, EmptyValue, Raised}

Outcomes(p) ==
    IF p.kind = "backstop"
    THEN (IF p.ptype = "image" THEN PILOutcomes(p) ELSE RuleBasedOutcomes(p))
    ELSE GenericOutcomes(p)

\* Python truth of a returned value: `if result:`
Truthy(o) == o.tag = "value"

----------------------------------------------------------------------------
(* Registry *)

\* Variant: sort(..., reverse=True).
RECURSIVE Insert_Descending(_, _)
Insert_Descending(p, s) ==
    IF s = <<>> THEN <<p>>
    ELSE IF Head(s).priority >= p.priority
         THEN <<Head(s)>> \o Insert_Descending(p, Tail(s))
         ELSE <<p>> \o s

\* Variant: an unstable sort, a provider moves ahead of its equals.
RECURSIVE Insert_BeforeTies(_, _)
Insert_BeforeTies(p, s) ==
    IF s = <<>> THEN <<p>>
    ELSE IF Head(s).priority < p.priority
         THEN <<Head(s)>> \o Insert_BeforeTies(p, Tail(s))
         ELSE <<p>> \o s

\* list.sort(key=lambda x: x.priority): ascending and stable.
RECURSIVE Insert(_, _)
Insert(p, s) ==
    IF s = <<>> THEN <<p>>
    ELSE IF Head(s).priority <= p.priority
         THEN <<Head(s)>> \o Insert(p, Tail(s))
         ELSE <<p>> \o s

\* Variant: the lists are left in registration order.
SortByPriority_Unsorted(s) == s

RECURSIVE SortByPriority(_)
SortByPriority(s) ==
    IF s = <<>> THEN <<>>
    ELSE Insert(s[Len(s)], SortByPriority(SubSeq(s, 1, Len(s) - 1)))

\* The registration lists of n providers of one capability: any priorities;
\* the backstop class, when present, is registered last, as in _init_providers
\* (anywhere else it is a provider with fewer outcomes than a generic one).
RegLists(ptype, n) ==
    { [k \in 1..n |-> AIProvider(NameOf(ptype, k), ptype, pr[k],
                                 IF k = n THEN kd ELSE "generic")] :
        pr \in [1..n -> 1..MaxPriority], kd \in Kinds }

NamesOf(s) == { s[k].name : k \in 1..Len(s) }

Registered == NamesOf(image_providers) \cup NamesOf(text_providers)

Sorted(s) == \A a, b \in 1..Len(s) : a < b => s[a].priority <= s[b].priority

Take(s, n) == SubSeq(s, 1, IF Len(s) < n THEN Len(s) ELSE n)

----------------------------------------------------------------------------
(* Statistics *)

\* Variants of update_stats a slip would produce.
\* The failure branch stamps last_used but does not count.
update_stats_FailureLost(st, name, success, t) ==
    [st EXCEPT ![name] =
        [success |-> IF success THEN @.success + 1 ELSE @.success,
         failure |-> @.failure,
         last_used |-> <<t>>]]

\* A success clears the failure counter.
update_stats_SuccessResets(st, name, success, t) ==
    [st EXCEPT ![name] =
        [success |-> IF success THEN @.success + 1 ELSE @.success,
         failure |-> IF success THEN 0 ELSE @.failure + 1,
         last_used |-> <<t>>]]

\* Both counters move on every call.
update_stats_CountsBoth(st, name, success, t) ==
    [st EXCEPT ![name] =
        [success |-> @.success + 1,
         failure |-> @.failure + 1,
         last_used |-> <<t>>]]

\* The counters move but last_used is not set.
update_stats_NoStamp(st, name, success, t) ==
    [st EXCEPT ![name] =
        [success |-> IF success THEN @.success + 1 ELSE @.success,
         failure |-> IF success THEN @.failure ELSE @.failure + 1,
         last_used |-> @.last_used]]

update_stats(st, name, success, t) ==
    [st EXCEPT ![name] =
        [success |-> IF success THEN @.success + 1 ELSE @.success,
         failure |-> IF success THEN @.failure ELSE @.failure + 1,
         last_used |-> <<t>>]]

----------------------------------------------------------------------------
(* Initial state: ProviderManager() *)

NoResult == [payload |-> NoneValue, name |-> "-"]

\* user_sessions = {}: no user has a session yet.
NoSessions == [u \in {} |-> <<>>]

\* The registry is given; no configuration is being built.
NoBoot == [image |-> <<>>, text |-> <<>>, built |-> <<>>]

\* No update is being handled.
NoHandler == [cmd |-> "-", user |-> 0, phase |-> "-", sent |-> <<>>,
              prompt |-> <<>>, recent |-> <<>>]

\* No object is called directly; rng is the state of the generator of the
\* random module, cls the class of the object under call. No get_stats()
\* result and no provider listing is held by anyone.
NoProbe == [rng |-> 1, cls |-> "-", calls |-> <<>>, snapshot |-> <<>>, listing |-> <<>>]

\* No second generate call is in flight. Beside the position of the call the
\* record keeps how many calls it made (calls), the successes and failures
\* its attempts ended with (oks, fails) and the statistics as they were when
\* the attempt in flight was invoked (seen).
NoCall == [pc |-> "idle", op |-> "-", i |-> 0, log |-> <<>>, ret |-> NoResult,
           calls |-> 0, oks |-> <<>>, fails |-> <<>>, seen |-> <<>>]

Init ==
    /\ \E ni \in 0..MaxProviders : \E nt \in 0..(MaxProviders - ni) :
         \E ri \in RegLists("image", ni) : \E rt \in RegLists("text", nt) :
            /\ image_providers = SortByPriority(ri)
            /\ text_providers = SortByPriority(rt)
            /\ stats = [n \in NamesOf(ri) \cup NamesOf(rt) |-> InitialStats]
            /\ attempts = [n \in NamesOf(ri) \cup NamesOf(rt) |-> 0]
    /\ now = 0
    /\ pc = "idle"
    /\ op = "-"
    /\ i = 0
    /\ log = <<>>
    /\ last = NoneValue
    /\ ret = NoResult
    /\ reply = "-"
    /\ stats0 = stats
    /\ calls = 0
    /\ results = <<>>
    /\ user_sessions = NoSessions
    /\ other = NoCall
    /\ boot = NoBoot
    /\ handler = NoHandler
    /\ probe = NoProbe

----------------------------------------------------------------------------
(* The operations *)

GenerateOps == {"gen_image", "gen_text"}
CommandOps == {"genfast", "genall", "askall"}

\* Variant: a second pass over the list, retrying the providers that failed.
Candidates_Twice(o) ==
    CASE o = "gen_image" -> image_providers \o image_providers
      [] o = "gen_text" -> text_providers \o text_providers
      [] o = "genfast" -> Take(image_providers, FastN)
      [] o = "genall" -> image_providers
      [] o = "askall" -> Take(text_providers, AskAllN)
      [] OTHER -> <<>>

\* Variant: askall_command walks the whole text list.
Candidates_AskallAll(o) ==
    CASE o = "gen_image" -> image_providers
      [] o = "gen_text" -> text_providers
      [] o = "genfast" -> Take(image_providers, FastN)
      [] o = "genall" -> image_providers
      [] o = "askall" -> text_providers
      [] OTHER -> <<>>

\* The list the for loop of an operation walks.
Candidates(o) ==
    CASE o = "gen_image" -> image_providers
      [] o = "gen_text" -> text_providers
      [] o = "genfast" -> Take(image_providers, FastN)
      [] o = "genall" -> image_providers
      [] o = "askall" -> Take(text_providers, AskAllN)
      [] OTHER -> <<>>

Entry(p, o) == [name |-> p.name, ok |-> o.tag # "raise" /\ Truthy(o)]

\* A call of an operation begins: a command handler reaches its loop.
Start(o) ==
    /\ pc \in {"idle", "done"}
    /\ calls < MaxCalls
    /\ pc' = "running"
    /\ op' = o
    /\ i' = 1
    /\ log' = <<>>
    /\ last' = NoneValue
    /\ ret' = NoResult
    /\ reply' = "-"
    /\ stats0' = stats
    /\ calls' = calls + 1
    /\ results' = <<>>
    /\ UNCHANGED <<registry, aside, stats, attempts, now>>

\* Variants of FallbackStep a slip in the loop would produce.
\* A success is recorded but the loop goes on to the next provider.
FallbackStep_NoReturn(o) ==
    IF o.tag = "raise"
    THEN [recorded |-> "failure", next |-> "continue"]
    ELSE IF Truthy(o)
         THEN [recorded |-> "success", next |-> "continue"]
         ELSE [recorded |-> "failure", next |-> "continue"]

\* No except clause: an exception of the provider leaves the method.
FallbackStep_RaiseAborts(o) ==
    IF o.tag = "raise"
    THEN [recorded |-> "none", next |-> "propagate"]
    ELSE IF Truthy(o)
         THEN [recorded |-> "success", next |-> "return"]
         ELSE [recorded |-> "failure", next |-> "continue"]

\* `if result is not None:` in place of `if result:`
FallbackStep_EmptyIsSuccess(o) ==
    IF o.tag = "raise"
    THEN [recorded |-> "failure", next |-> "continue"]
    ELSE IF o.tag # "none"
         THEN [recorded |-> "success", next |-> "return"]
         ELSE [recorded |-> "failure", next |-> "continue"]

\* The except clause records the failure and raises again.
FallbackStep_ReraiseAfterRecord(o) ==
    IF o.tag = "raise"
    THEN [recorded |-> "failure", next |-> "propagate"]
    ELSE IF Truthy(o)
         THEN [recorded |-> "success", next |-> "return"]
         ELSE [recorded |-> "failure", next |-> "continue"]

\* A falsy result moves on to the next provider without update_stats(False).
FallbackStep_FailureUnrecorded(o) ==
    IF o.tag = "raise"
    THEN [recorded |-> "failure", next |-> "continue"]
    ELSE IF Truthy(o)
         THEN [recorded |-> "success", next |-> "return"]
         ELSE [recorded |-> "none", next |-> "continue"]

\* One iteration of the loop of generate_image_with_fallback /
\* generate_text_with_fallback on the outcome o of the provider's attempt:
\* which outcome is recorded and whether the method returns.
FallbackStep(o) ==
    IF o.tag = "raise"
    THEN [recorded |-> "failure", next |-> "continue"]
    ELSE IF Truthy(o)
         THEN [recorded |-> "success", next |-> "return"]
         ELSE [recorded |-> "failure", next |-> "continue"]

\* Variant: the tuple names the provider's type instead of the provider.
Success_ProviderType(o, p) == [payload |-> o, name |-> p.ptype]

\* return result, provider.name
Success(o, p) == [payload |-> o, name |-> p.name]

Record(st, name, recorded, t) ==
    IF recorded = "none" THEN st ELSE update_stats(st, name, recorded = "success", t)

GenerateAttempt ==
    /\ pc = "running"
    /\ op \in GenerateOps
    /\ i <= Len(Candidates(op))
    /\ LET p == Candidates(op)[i] IN
       \E o \in Outcomes(p) :
          LET step == FallbackStep(o) IN
            /\ attempts' = [attempts EXCEPT ![p.name] = @ + 1]
            /\ log' = Append(log, Entry(p, o))
            /\ last' = o
            /\ now' = now + 1
            /\ stats' = Record(stats, p.name, step.recorded, now')
            /\ IF step.next = "return"
               THEN /\ ret' = Success(o, p)
                    /\ pc' = "done"
                    /\ i' = i
               ELSE IF step.next = "continue"
               THEN /\ ret' = ret
                    /\ pc' = pc
                    /\ i' = i + 1
               ELSE /\ ret' = [payload |-> o, name |-> "exception"]
                    /\ pc' = "done"
                    /\ i' = i
    /\ UNCHANGED <<registry, aside, op, reply, stats0, calls, results>>

\* Variant: the final return names no failure.
AllProvidersFailed_Unnamed == [payload |-> NoneValue, name |-> "-"]

\* return None, "All providers failed"
AllProvidersFailed == [payload |-> NoneValue, name |-> AllFailedName]

\* The loop is over without a return.
GenerateExhausted ==
    /\ pc = "running"
    /\ op \in GenerateOps
    /\ i > Len(Candidates(op))
    /\ ret' = AllProvidersFailed
    /\ pc' = "done"
    /\ UNCHANGED <<registry, aside, stats, attempts, now, op, i, log, last, reply, stats0, calls, results>>

\* The module imports (lines 9-31) do not import tempfile; gen_command and the
\* providers import it locally, genfast_command and genall_command do not.
TempfileDefined == FALSE

\* One iteration of the loop of genfast_command on the outcome o: a non-empty
\* image enters the `with tempfile...` block, which returns after replying
\* with the photo, or raises NameError inside the try, whose handler continues.
GenfastStep(o) ==
    IF o.tag = "raise" THEN "continue"
    ELSE IF Truthy(o)
         THEN (IF TempfileDefined THEN "return" ELSE "continue")
         ELSE "continue"

GenfastAttempt ==
    /\ pc = "running"
    /\ op = "genfast"
    /\ i <= Len(Candidates(op))
    /\ LET p == Candidates(op)[i] IN
       \E o \in Outcomes(p) :
            /\ attempts' = [attempts EXCEPT ![p.name] = @ + 1]
            /\ log' = Append(log, Entry(p, o))
            /\ last' = o
            /\ IF GenfastStep(o) = "return"
               THEN /\ reply' = "photo"
                    /\ pc' = "done"
                    /\ i' = i
               ELSE /\ reply' = reply
                    /\ pc' = pc
                    /\ i' = i + 1
    /\ UNCHANGED <<registry, aside, stats, now, op, ret, stats0, calls, results>>

\* After the loop: status_msg.edit_text("... failed")
GenfastEnd ==
    /\ pc = "running"
    /\ op = "genfast"
    /\ i > Len(Candidates(op))
    /\ reply' = "fast_failed"
    /\ pc' = "done"
    /\ UNCHANGED <<registry, aside, stats, attempts, now, op, i, log, last, ret, stats0, calls, results>>

\* Variant: `if result is not None:` in the collecting loops.
Collects_NotNone(o) == o.tag \notin {"raise", "none"}

\* Whether an iteration of genall_command / askall_command appends the
\* provider's result to results / responses: `if result:` inside the try
\* (genall_command counts it in `successful` with the same statement).
Collects(o) == o.tag # "raise" /\ Truthy(o)

\* One iteration of the loop of genall_command: every image provider is
\* attempted; an exception is logged and the loop goes on.
GenallAttempt ==
    /\ pc = "running"
    /\ op = "genall"
    /\ i <= Len(Candidates(op))
    /\ LET p == Candidates(op)[i] IN
       \E o \in Outcomes(p) :
            /\ attempts' = [attempts EXCEPT ![p.name] = @ + 1]
            /\ log' = Append(log, Entry(p, o))
            /\ last' = o
            /\ results' = IF Collects(o) THEN Append(results, p.name) ELSE results
    /\ i' = i + 1
    /\ UNCHANGED <<registry, aside, stats, now, pc, op, ret, reply, stats0, calls>>

\* One iteration of the loop of askall_command, over text_providers[:5].
AskallAttempt ==
    /\ pc = "running"
    /\ op = "askall"
    /\ i <= Len(Candidates(op))
    /\ LET p == Candidates(op)[i] IN
       \E o \in Outcomes(p) :
            /\ attempts' = [attempts EXCEPT ![p.name] = @ + 1]
            /\ log' = Append(log, Entry(p, o))
            /\ last' = o
            /\ results' = IF Collects(o) THEN Append(results, p.name) ELSE results
    /\ i' = i + 1
    /\ UNCHANGED <<registry, aside, stats, now, pc, op, ret, reply, stats0, calls>>

\* The entries of the results the loop collected.
Collected(l) == SelectSeq(l, LAMBDA e : e.ok)

\* After the loop of genall_command: with successful > 0 the photos are sent
\* through tempfile, else the failure text.
GenallReply(l) ==
    IF Len(Collected(l)) > 0
    THEN (IF TempfileDefined THEN "photos" ELSE "NameError")
    ELSE "all_failed"

GenallEnd ==
    /\ pc = "running"
    /\ op = "genall"
    /\ i > Len(Candidates(op))
    /\ reply' = GenallReply(log)
    /\ pc' = "done"
    /\ UNCHANGED <<registry, aside, stats, attempts, now, op, i, log, last, ret, stats0, calls, results>>

\* After the loop of askall_command: the comparison text or "no answer".
AskallReply(l) == IF Len(Collected(l)) > 0 THEN "answers" ELSE "no_answer"

AskallEnd ==
    /\ pc = "running"
    /\ op = "askall"
    /\ i > Len(Candidates(op))
    /\ reply' = AskallReply(log)
    /\ pc' = "done"
    /\ UNCHANGED <<registry, aside, stats, attempts, now, op, i, log, last, ret, stats0, calls, results>>

StartOp == \E o \in GenerateOps \cup CommandOps : Start(o)

Next ==
    \/ StartOp
    \/ GenerateAttempt
    \/ GenerateExhausted
    \/ GenfastAttempt
    \/ GenfastEnd
    \/ GenallAttempt
    \/ GenallEnd
    \/ AskallAttempt
    \/ AskallEnd

Spec == Init /\ [][Next]_vars

----------------------------------------------------------------------------
(* Registries longer than the slices of genfast_command and askall_command *)

\* n providers of one capability registered with priorities 1..n, the way
\* _init_providers lists them (image 1..9, text 1..10).
Numbered(ptype, n) == [k \in 1..n |-> AIProvider(NameOf(ptype, k), ptype, k, "generic")]

\* One image provider more than image_providers[:3] holds, one text provider
\* more than text_providers[:5] holds.
WideInit ==
    /\ image_providers = SortByPriority(Numbered("image", FastN + 1))
    /\ text_providers = SortByPriority(Numbered("text", AskAllN + 1))
    /\ stats = [n \in Registered |-> InitialStats]
    /\ attempts = [n \in Registered |-> 0]
    /\ now = 0
    /\ pc = "idle"
    /\ op = "-"
    /\ i = 0
    /\ log = <<>>
    /\ last = NoneValue
    /\ ret = NoResult
    /\ reply = "-"
    /\ stats0 = stats
    /\ calls = 0
    /\ results = <<>>
    /\ user_sessions = NoSessions
    /\ other = NoCall
    /\ boot = NoBoot
    /\ handler = NoHandler
    /\ probe = NoProbe

WideSpec == WideInit /\ [][Next]_vars

----------------------------------------------------------------------------
(* The await of a generate call, one step to invoke the provider's attempt  *)
(* and one to resume with its outcome. The attempt of a generic provider may *)
(* suspend; the backstops compute locally and return at once. The handlers  *)
(* still run one at a time.                                                 *)

\* asyncio.CancelledError thrown into the call at its await.
Cancelled == [tag |-> "cancel", by |-> "-"]

\* Variant: a bare `except:` (or CancelledError deriving from Exception, as
\* before Python 3.8) treats the cancellation as a failed attempt.
OnCancel_Caught == [recorded |-> "failure", next |-> "continue"]

\* What the try/except of the loop does with CancelledError: it derives from
\* BaseException, `except Exception` does not catch it, nothing is recorded
\* and it leaves the method.
OnCancel == [recorded |-> "none", next |-> "propagate"]

StartGenerate == \E o \in GenerateOps : Start(o)

\* result = await provider.generate_image(prompt): the attempt is invoked.
GenerateInvoke ==
    /\ pc = "running"
    /\ op \in GenerateOps
    /\ i <= Len(Candidates(op))
    /\ attempts' = [attempts EXCEPT ![Candidates(op)[i].name] = @ + 1]
    /\ pc' = "awaiting"
    /\ UNCHANGED <<registry, aside, stats, now, op, i, log, last, ret, reply, stats0,
                   calls, results>>

\* The attempt completes and the loop goes on with its outcome.
GenerateResume ==
    /\ pc = "awaiting"
    /\ LET p == Candidates(op)[i] IN
       \E o \in Outcomes(p) :
          LET step == FallbackStep(o) IN
            /\ log' = Append(log, Entry(p, o))
            /\ last' = o
            /\ now' = now + 1
            /\ stats' = Record(stats, p.name, step.recorded, now')
            /\ IF step.next = "return"
               THEN /\ ret' = Success(o, p)
                    /\ pc' = "done"
                    /\ i' = i
               ELSE IF step.next = "continue"
               THEN /\ ret' = ret
                    /\ pc' = "running"
                    /\ i' = i + 1
               ELSE /\ ret' = [payload |-> o, name |-> "exception"]
                    /\ pc' = "done"
                    /\ i' = i
    /\ UNCHANGED <<registry, aside, attempts, op, reply, stats0, calls, results>>

\* The attempt of a generic provider turns out never to complete. No
\* asyncio.wait_for or other timeout surrounds the await of lines 163 and 180,
\* so nothing in the method ends it.
GenerateStall ==
    /\ pc = "awaiting"
    /\ Candidates(op)[i].kind = "generic"
    /\ pc' = "hung"
    /\ UNCHANGED <<registry, aside, stats, attempts, now, op, i, log, last, ret, reply,
                   stats0, calls, results>>

\* The caller cancels the task while the attempt of a generic provider is
\* suspended: CancelledError is raised at the await.
GenerateCancel ==
    /\ pc \in {"awaiting", "hung"}
    /\ Candidates(op)[i].kind = "generic"
    /\ LET p == Candidates(op)[i]
           step == OnCancel IN
         /\ last' = Cancelled
         /\ IF step.recorded = "none"
            THEN UNCHANGED <<stats, now, log>>
            ELSE /\ now' = now + 1
                 /\ stats' = Record(stats, p.name, step.recorded, now')
                 /\ log' = Append(log, [name |-> p.name, ok |-> FALSE])
         /\ IF step.next = "continue"
            THEN /\ ret' = ret
                 /\ pc' = "running"
                 /\ i' = i + 1
            ELSE /\ ret' = [payload |-> Cancelled, name |-> "CancelledError"]
                 /\ pc' = "done"
                 /\ i' = i
    /\ UNCHANGED <<registry, aside, attempts, op, reply, stats0, calls, results>>

AwaitNext ==
    \/ StartGenerate
    \/ GenerateInvoke
    \/ GenerateResume
    \/ GenerateStall
    \/ GenerateCancel
    \/ GenerateExhausted

AwaitSpec == Init /\ [][AwaitNext]_vars

----------------------------------------------------------------------------
(* Two generate calls on the same ProviderManager, interleaved at every      *)
(* await: the widest scheduling asyncio gives coroutines that share the      *)
(* event loop. The program itself runs its handlers one at a time, which is  *)
(* the case where the second call only moves while the first is not in       *)
(* flight. The first call is the one of the variables pc, op, i, log, ret.   *)

ConcInit ==
    /\ image_providers = SortByPriority(Numbered("image", 2))
    /\ text_providers = SortByPriority(Numbered("text", 2))
    /\ stats = [n \in Registered |-> InitialStats]
    /\ attempts = [n \in Registered |-> 0]
    /\ now = 0
    /\ pc = "idle"
    /\ op = "-"
    /\ i = 0
    /\ log = <<>>
    /\ last = NoneValue
    /\ ret = NoResult
    /\ reply = "-"
    /\ stats0 = stats
    /\ calls = 0
    /\ results = <<>>
    /\ user_sessions = NoSessions
    /\ other = [NoCall EXCEPT !.oks = [n \in Registered |-> 0],
                              !.fails = [n \in Registered |-> 0],
                              !.seen = stats]
    /\ boot = NoBoot
    /\ handler = NoHandler
    /\ probe = NoProbe

\* The first call is made once.
ConcStart ==
    /\ calls = 0
    /\ StartGenerate

OtherStart ==
    /\ other.pc \in {"idle", "done"}
    /\ other.calls < MaxCalls
    /\ \E o \in GenerateOps :
          other' = [other EXCEPT !.pc = "running", !.op = o, !.i = 1, !.log = <<>>,
                                 !.ret = NoResult, !.calls = @ + 1]
    /\ UNCHANGED <<registry, stats, attempts, now, pc, op, i, log, last, ret, reply,
                   stats0, calls, results, user_sessions, boot, probe, handler>>

OtherInvoke ==
    /\ other.pc = "running"
    /\ other.i <= Len(Candidates(other.op))
    /\ attempts' = [attempts EXCEPT ![Candidates(other.op)[other.i].name] = @ + 1]
    /\ other' = [other EXCEPT !.pc = "awaiting", !.seen = stats]
    /\ UNCHANGED <<registry, stats, now, pc, op, i, log, last, ret, reply,
                   stats0, calls, results, user_sessions, boot, probe, handler>>

\* Variant: the counter is read before the await and written back after it.
Read_BeforeAwait(current, before) == before

\* update_stats reads the counters it increments when it runs, after the
\* await has returned, in one statement with the write (lines 68, 70).
Read(current, before) == current

OtherResume ==
    /\ other.pc = "awaiting"
    /\ LET p == Candidates(other.op)[other.i] IN
       \E o \in Outcomes(p) :
          LET step == FallbackStep(o)
              e == Entry(p, o) IN
            /\ now' = now + 1
            /\ stats' = [stats EXCEPT ![p.name] =
                            Record(Read(stats, other.seen), p.name, step.recorded, now')[p.name]]
            /\ other' =
                 [other EXCEPT
                    !.log = Append(@, e),
                    !.oks = [@ EXCEPT ![p.name] = IF e.ok THEN @ + 1 ELSE @],
                    !.fails = [@ EXCEPT ![p.name] = IF e.ok THEN @ ELSE @ + 1],
                    !.ret = IF step.next = "return" THEN Success(o, p)
                            ELSE IF step.next = "continue" THEN @
                            ELSE [payload |-> o, name |-> "exception"],
                    !.pc = IF step.next = "continue" THEN "running" ELSE "done",
                    !.i = IF step.next = "continue" THEN @ + 1 ELSE @]
    /\ UNCHANGED <<registry, attempts, pc, op, i, log, last, ret, reply,
                   stats0, calls, results, user_sessions, boot, probe, handler>>

OtherExhausted ==
    /\ other.pc = "running"
    /\ other.i > Len(Candidates(other.op))
    /\ other' = [other EXCEPT !.ret = AllProvidersFailed, !.pc = "done"]
    /\ UNCHANGED <<registry, stats, attempts, now, pc, op, i, log, last, ret, reply,
                   stats0, calls, results, user_sessions, boot, probe, handler>>

ConcNext ==
    \/ ConcStart
    \/ GenerateInvoke
    \/ GenerateResume
    \/ GenerateExhausted
    \/ OtherStart
    \/ OtherInvoke
    \/ OtherResume
    \/ OtherExhausted

ConcSpec == ConcInit /\ [][ConcNext]_vars

----------------------------------------------------------------------------
(* Process start: provider_manager = ProviderManager() at line 1081 builds   *)
(* the two lists of _init_providers, one constructor call per step. It is    *)
(* followed for the configuration as written and for every deployment that  *)
(* keeps at most MaxKept of its entries per capability.                      *)

\* The image list of lines 88-115: class, name, priority=.
FixedImages ==
    << [cls |-> "PuterImageProvider", name |-> "Puter.js Image", priority |-> 1],
       [cls |-> "NanoBananaProvider", name |-> "Nano Banana Pro (felo.ai)", priority |-> 2],
       [cls |-> "PollinationsProvider", name |-> "Pollinations AI", priority |-> 3],
       [cls |-> "DuckAIProvider", name |-> "Duck.ai", priority |-> 4],
       [cls |-> "NanoBananaProProvider", name |-> "NanoBanana-Pro", priority |-> 5],
       [cls |-> "HiggsfieldProvider", name |-> "Higgsfield AI", priority |-> 6],
       [cls |-> "PuterGPTImageProvider", name |-> "GPT Image", priority |-> 7],
       [cls |-> "PuterGeminiImageProvider", name |-> "Gemini 2.5 Flash", priority |-> 8],
       [cls |-> "PILImageProvider", name |-> "PIL Fallback", priority |-> 9] >>

\* The text list of lines 118-148.
FixedTexts ==
    << [cls |-> "PuterGeminiTextProvider", name |-> "Puter Gemini 3.1 Pro", priority |-> 1],
       [cls |-> "PuterGPTTextProvider", name |-> "Puter GPT-5.2", priority |-> 2],
       [cls |-> "OpenRouterGeminiProvider", name |-> "OpenRouter Gemini", priority |-> 3],
       [cls |-> "DuckAITextProvider", name |-> "Duck.ai Chat", priority |-> 4],
       [cls |-> "NanoBananaProTextProvider", name |-> "NanoBanana-Pro Text", priority |-> 5],
       [cls |-> "FeloTextProvider", name |-> "felo.ai Chat", priority |-> 6],
       [cls |-> "HiggsfieldTextProvider", name |-> "Higgsfield Text", priority |-> 7],
       [cls |-> "PuterGeminiFlashProvider", name |-> "Gemini 3 Flash", priority |-> 8],
       [cls |-> "PuterGeminiProProvider", name |-> "Gemini 3 Pro", priority |-> 9],
       [cls |-> "RuleBasedProvider", name |-> "Simple Fallback", priority |-> 10] >>

\* The classes that define __init__(self, name, priority) and pass "image" to
\* AIProvider.__init__ (lines 208, 274, 320, 351, 396, 430) ...
ImageInit ==
    {"PuterImageProvider", "NanoBananaProvider", "PollinationsProvider",
     "DuckAIProvider", "NanoBananaProProvider", "HiggsfieldProvider"}

\* ... or "text" (lines 634, 694, 754, 799, 841, 874, 915). The other six
\* classes define no __init__ and inherit
\* AIProvider.__init__(self, name, provider_type, priority).
TextInit ==
    {"PuterGeminiTextProvider", "PuterGPTTextProvider", "OpenRouterGeminiProvider",
     "DuckAITextProvider", "NanoBananaProTextProvider", "FeloTextProvider",
     "HiggsfieldTextProvider"}

\* The classes of the local generators.
BackstopClasses == {"PILImageProvider", "RuleBasedProvider"}

\* Cls(name, priority=p): the object, or <<>> when the call raises TypeError
\* because the inherited __init__ is given no provider_type.
Construct(e) ==
    IF e.cls \in ImageInit \cup TextInit
    THEN << AIProvider(e.name, IF e.cls \in ImageInit THEN "image" ELSE "text", e.priority,
                       IF e.cls \in BackstopClasses THEN "backstop" ELSE "generic") >>
    ELSE <<>>

\* The entries of s at the positions of S, in order.
RECURSIVE Kept(_, _, _)
Kept(s, S, k) ==
    IF k > Len(s) THEN <<>>
    ELSE (IF k \in S THEN <<s[k]>> ELSE <<>>) \o Kept(s, S, k + 1)

\* The configuration as written and the ones that keep at most MaxKept entries.
SubConfigs(s) ==
    {s} \cup { Kept(s, S, 1) : S \in {T \in SUBSET (1..Len(s)) : Cardinality(T) <= MaxKept} }

NoStats == [n \in {} |-> InitialStats]

\* ProviderManager.__init__ has set both lists to [].
BuildInit ==
    /\ \E ci \in SubConfigs(FixedImages) : \E ct \in SubConfigs(FixedTexts) :
          boot = [image |-> ci, text |-> ct, built |-> <<>>]
    /\ image_providers = <<>>
    /\ text_providers = <<>>
    /\ stats = NoStats
    /\ attempts = [n \in {} |-> 0]
    /\ now = 0
    /\ pc = "boot_image"
    /\ op = "-"
    /\ i = 0
    /\ log = <<>>
    /\ last = NoneValue
    /\ ret = NoResult
    /\ reply = "-"
    /\ stats0 = NoStats
    /\ calls = 0
    /\ results = <<>>
    /\ user_sessions = NoSessions
    /\ other = NoCall
    /\ probe = NoProbe
    /\ handler = NoHandler

\* The list literal under evaluation and the entry whose constructor is next.
Building == IF pc = "boot_image" THEN boot.image ELSE boot.text

\* The next element of the list literal is constructed.
BuildConstruct ==
    /\ pc \in {"boot_image", "boot_text"}
    /\ Len(boot.built) < Len(Building)
    /\ LET e == Building[Len(boot.built) + 1] IN
         /\ Construct(e) # <<>>
         /\ boot' = [boot EXCEPT !.built = Append(@, Construct(e)[1])]
         /\ stats' = stats @@ (e.name :> InitialStats)
         /\ attempts' = attempts @@ (e.name :> 0)
    /\ UNCHANGED <<registry, now, pc, op, i, log, last, ret, reply, stats0, calls,
                   results, user_sessions, other, probe, handler>>

\* The constructor call raises TypeError, which leaves ProviderManager() and
\* the module: the process ends before main() runs.
BuildTypeError ==
    /\ pc \in {"boot_image", "boot_text"}
    /\ Len(boot.built) < Len(Building)
    /\ Construct(Building[Len(boot.built) + 1]) = <<>>
    /\ pc' = "crashed"
    /\ UNCHANGED <<registry, stats, attempts, now, op, i, log, last, ret, reply, stats0,
                   calls, results, user_sessions, other, boot, probe, handler>>

\* The finished list is assigned to self.image_providers / self.text_providers.
BuildAssign ==
    /\ pc \in {"boot_image", "boot_text"}
    /\ Len(boot.built) = Len(Building)
    /\ IF pc = "boot_image"
       THEN /\ image_providers' = boot.built
            /\ text_providers' = text_providers
            /\ pc' = "boot_text"
       ELSE /\ text_providers' = boot.built
            /\ image_providers' = image_providers
            /\ pc' = "boot_sort"
    /\ boot' = [boot EXCEPT !.built = <<>>]
    /\ UNCHANGED <<stats, attempts, now, op, i, log, last, ret, reply, stats0, calls,
                   results, user_sessions, other, probe, handler>>

\* Both lists are sorted by priority; the manager is ready.
BuildSort ==
    /\ pc = "boot_sort"
    /\ image_providers' = SortByPriority(image_providers)
    /\ text_providers' = SortByPriority(text_providers)
    /\ pc' = "idle"
    /\ stats0' = stats
    /\ UNCHANGED <<stats, attempts, now, op, i, log, last, ret, reply, calls,
                   results, user_sessions, other, boot, probe, handler>>

BuildNext ==
    \/ BuildConstruct
    \/ BuildTypeError
    \/ BuildAssign
    \/ BuildSort

BuildSpec == BuildInit /\ [][BuildNext]_vars

----------------------------------------------------------------------------
(* The methods of the provider classes, called on an object directly:       *)
(* generate_image / generate_text of each of the 19 classes, on a prompt,    *)
(* with what the upstream or the local library does during the call. probe   *)
(* keeps the two latest calls.                                               *)

ProviderClasses ==
    {FixedImages[k].cls : k \in 1..Len(FixedImages)} \cup
    {FixedTexts[k].cls : k \in 1..Len(FixedTexts)}

\* The capability a class implements; its other method is `return None`.
CapabilityOf(cls) ==
    IF \E k \in 1..Len(FixedImages) : FixedImages[k].cls = cls THEN "image" ELSE "text"

Methods == {"image", "text"}

\* How the try block of the implemented method obtains its result:
\*   "parsed"  the answer of the upstream (requests, or node through
\*             subprocess.run) is parsed as JSON and a field of it returned,
\*             base64-decoded for images
\*   "raw"     the body of a 200 answer is returned as it is
\*   "pil"     PILImageProvider draws the image locally
\*   "rule"    RuleBasedProvider picks a text locally
Style(cls) ==
    CASE cls = "PILImageProvider" -> "pil"
      [] cls = "RuleBasedProvider" -> "rule"
      [] cls \in {"PollinationsProvider", "NanoBananaProProvider", "HiggsfieldProvider",
                  "NanoBananaProTextProvider", "HiggsfieldTextProvider"} -> "raw"
      [] OTHER -> "parsed"

\* What can happen during a call, by style. A raw body is never parsed, so
\* nothing in it is malformed or undecodable for the provider.
Events(style) ==
    CASE style = "parsed" -> {"ok", "unreachable", "timeout", "bad_status", "malformed",
                              "missing_field", "undecodable", "empty"}
      [] style = "raw" -> {"ok", "unreachable", "timeout", "bad_status", "empty"}
      [] style = "pil" -> {"ok", "internal_error"}
      [] OTHER -> {"ok"}

Prompts == {"cat", "dog"}

Payload(cls, body) == [tag |-> "value", by |-> cls, body |-> body]
NoPayload(tag) == [tag |-> tag, by |-> "-", body |-> <<>>]

\* Variant: the text does not carry the prompt.
RuleBasedText_NoPrompt(s, prompt) == Payload("RuleBasedProvider", <<s, "">>)

\* random.choice(responses): the template the generator state selects, with
\* the prompt formatted into it.
RuleBasedText(s, prompt) == Payload("RuleBasedProvider", <<s, prompt>>)

\* The PNG with the colour and rectangles the generator state gives and the
\* prompt drawn on it.
PILImage(s, prompt) == Payload("PILImageProvider", <<s, prompt>>)

\* What the try block of the implemented method does: the value of its
\* return statement, or "raise" when a statement of it raises.
TryBody(cls, prompt, ev, s) ==
    CASE Style(cls) = "rule" -> {RuleBasedText(s, prompt)}
      [] Style(cls) = "pil" ->
           IF ev = "ok" THEN {PILImage(s, prompt)} ELSE {NoPayload("raise")}
      [] ev = "ok" -> {Payload(cls, <<0, prompt>>)}
      [] ev \in {"unreachable", "timeout", "malformed", "undecodable"} -> {NoPayload("raise")}
      [] ev = "missing_field" -> {NoPayload("raise"), NoPayload("none")}
      [] ev = "bad_status" -> {NoPayload("none")}
      [] OTHER -> {NoPayload("empty")}

\* Variant: no except clause around the body.
Boundary_NoExcept(cls, prompt, inner) == inner

\* except Exception: log and return None; RuleBasedProvider returns a text.
Boundary(cls, prompt, inner) ==
    IF inner.tag # "raise" THEN inner
    ELSE IF Style(cls) = "rule" THEN Payload(cls, <<0, prompt>>)
    ELSE NoPayload("none")

\* Variant: the method of the other capability is left abstract.
OtherCapability_Raises == NoPayload("raise")

\* generate_text of an image class, generate_image of a text class:
\* `return None`.
OtherCapability == NoPayload("none")

\* The classes whose implemented method draws from the random module, which
\* advances the generator.
UsesRandom(cls) == cls \in {"PILImageProvider", "RuleBasedProvider", "PollinationsProvider"}

RngStates == 1..Templates

\* One object of one class; the generator is seeded by the system.
AttemptInit ==
    /\ image_providers = <<Numbered("image", 1)>>
    /\ text_providers = <<Numbered("text", 1)>>
    /\ stats = [n \in {NameOf("image", 1), NameOf("text", 1)} |-> InitialStats]
    /\ attempts = [n \in {NameOf("image", 1), NameOf("text", 1)} |-> 0]
    /\ now = 0
    /\ pc = "idle"
    /\ op = "-"
    /\ i = 0
    /\ log = <<>>
    /\ last = NoneValue
    /\ ret = NoResult
    /\ reply = "-"
    /\ stats0 = stats
    /\ calls = 0
    /\ results = <<>>
    /\ user_sessions = NoSessions
    /\ other = NoCall
    /\ boot = NoBoot
    /\ handler = NoHandler
    /\ \E cls \in ProviderClasses : \E s \in RngStates :
         probe = [NoProbe EXCEPT !.rng = s, !.cls = cls]

ProviderAttempt ==
    /\ probe.cls \in ProviderClasses
    /\ \E m \in Methods : \E prompt \in Prompts : \E ev \in Events(Style(probe.cls)) :
         LET cls == probe.cls
             own == m = CapabilityOf(cls) IN
           \E inner \in (IF own THEN TryBody(cls, prompt, ev, probe.rng)
                          ELSE {OtherCapability}) :
             LET after == IF own /\ UsesRandom(cls)
                          THEN (probe.rng % Templates) + 1 ELSE probe.rng
                 call == [cls |-> cls, method |-> m, prompt |-> prompt,
                          event |-> IF own THEN ev ELSE "-",
                          inner |-> inner,
                          returned |-> IF own THEN Boundary(cls, prompt, inner) ELSE inner,
                          rng_before |-> probe.rng, rng_after |-> after] IN
               /\ (~own) => ev = "ok"
               /\ probe' = [probe EXCEPT !.rng = after,
                                         !.calls = Take(<<call>> \o @, 2)]
    /\ UNCHANGED <<registry, stats, attempts, now, pc, op, i, log, last, ret, reply,
                   stats0, calls, results, user_sessions, other, boot, handler>>

AttemptNext == ProviderAttempt

AttemptSpec == AttemptInit /\ [][AttemptNext]_vars

----------------------------------------------------------------------------
(* get_stats, stats_command and providers_command next to the operations.   *)
(* A snapshot is kept by its caller; `taken` remembers the statistics as    *)
(* they were when get_stats returned.                                       *)

\* Variant: only the providers that were used, as stats_command prints them.
StatsOf_UsedOnly(s, st) ==
    LET used == SelectSeq(s, LAMBDA p : st[p.name].success + st[p.name].failure > 0) IN
    [k \in 1..Len(used) |->
        [name |-> used[k].name, success |-> st[used[k].name].success,
         failure |-> st[used[k].name].failure, last_used |-> st[used[k].name].last_used]]

\* [{"name": p.name, **p.stats} for p in providers]: a new dict per provider
\* holding the values of the moment.
StatsOf(s, st) ==
    [k \in 1..Len(s) |->
        [name |-> s[k].name, success |-> st[s[k].name].success,
         failure |-> st[s[k].name].failure, last_used |-> st[s[k].name].last_used]]

get_stats == [image |-> StatsOf(image_providers, stats),
              text |-> StatsOf(text_providers, stats)]

\* Variant: the loop consumes the list it walks.
Iterated_Popping(s) == IF s = <<>> THEN s ELSE Tail(s)

\* `for p in providers`: the list after the loop.
Iterated(s) == s

StatsCommand ==
    /\ pc \in {"idle", "done"}
    /\ probe' = [probe EXCEPT !.snapshot = <<[stats |-> get_stats, taken |-> stats]>>]
    /\ reply' = "stats"
    /\ image_providers' = Iterated(image_providers)
    /\ text_providers' = Iterated(text_providers)
    /\ UNCHANGED <<stats, attempts, now, pc, op, i, log, last, ret, stats0, calls,
                   results, user_sessions, other, boot, handler>>

ProvidersCommand ==
    /\ pc \in {"idle", "done"}
    /\ probe' = [probe EXCEPT !.listing =
                    <<[image |-> [k \in 1..Len(image_providers) |->
                                    [name |-> image_providers[k].name,
                                     priority |-> image_providers[k].priority]],
                       text |-> [k \in 1..Len(text_providers) |->
                                    [name |-> text_providers[k].name,
                                     priority |-> text_providers[k].priority]]]>>]
    /\ reply' = "providers"
    /\ image_providers' = Iterated(image_providers)
    /\ text_providers' = Iterated(text_providers)
    /\ UNCHANGED <<stats, attempts, now, pc, op, i, log, last, ret, stats0, calls,
                   results, user_sessions, other, boot, handler>>

IntrospectNext == Next \/ StatsCommand \/ ProvidersCommand

IntrospectSpec == WideInit /\ [][IntrospectNext]_vars

----------------------------------------------------------------------------
(* Sessions: UserSession, get_user_session *)

Users == 1..MaxUsers

\* UserSession.__init__; added counts the add_to_history calls on the session.
UserSession(user_id) == [user_id |-> user_id, history |-> <<>>, added |-> 0]

\* Variant: a new session on every call.
get_user_session_Fresh(us, u) ==
    [v \in DOMAIN us \cup {u} |-> IF v = u THEN UserSession(u) ELSE us[v]]

\* get_user_session: the session of the user, created on first use.
get_user_session(us, u) == IF u \in DOMAIN us THEN us ELSE us @@ (u :> UserSession(u))

\* s[-n:] and s[:n] of Python.
LastN(s, n) == IF Len(s) <= n THEN s ELSE SubSeq(s, Len(s) - n + 1, Len(s))
FirstN(s, n) == IF Len(s) <= n THEN s ELSE SubSeq(s, 1, n)

\* Variant: the slice keeps the oldest entries, self.history[:50].
add_to_history_KeepOldest(s, command, prompt, result, t) ==
    LET h == Append(s.history,
                    [timestamp |-> t, command |-> command, prompt |-> prompt,
                     result_preview |-> FirstN(result, PreviewLen)]) IN
      [s EXCEPT !.history = IF Len(h) > HistoryLimit THEN FirstN(h, HistoryLimit) ELSE h,
                !.added = @ + 1]

\* Variant: the result is stored whole.
add_to_history_WholeResult(s, command, prompt, result, t) ==
    LET h == Append(s.history,
                    [timestamp |-> t, command |-> command, prompt |-> prompt,
                     result_preview |-> result]) IN
      [s EXCEPT !.history = IF Len(h) > HistoryLimit THEN LastN(h, HistoryLimit) ELSE h,
                !.added = @ + 1]

\* UserSession.add_to_history: append the entry, then keep the last 50.
\* A text is the sequence of its characters.
add_to_history(s, command, prompt, result, t) ==
    LET h == Append(s.history,
                    [timestamp |-> t, command |-> command, prompt |-> prompt,
                     result_preview |-> FirstN(result, PreviewLen)]) IN
      [s EXCEPT !.history = IF Len(h) > HistoryLimit THEN LastN(h, HistoryLimit) ELSE h,
                !.added = @ + 1]

\* A command of user u succeeded and recorded itself; the prompt of the n-th
\* call on a session is n, the clock is not advanced by it.
AddToHistory ==
    \E u \in Users :
        LET us == get_user_session(user_sessions, u) IN
          /\ us[u].added < MaxEntries
          /\ user_sessions' =
                [us EXCEPT ![u] = add_to_history(@, "/gen", @.added + 1, <<"I", "1">>, now)]
    /\ UNCHANGED <<registry, stats, attempts, now, pc, op, i, log, last, ret, reply,
                   stats0, calls, results, other, boot, probe, handler>>

HistoryNext == AddToHistory

HistorySpec == WideInit /\ [][HistoryNext]_vars

\* add_to_history called with results of several lengths, around the 100
\* characters the preview keeps. The k-th character of a text is k; the
\* prompt of a call is its number among all the calls.
MaxAdds == 3
ResultLengths == {0, 2, PreviewLen, PreviewLen + 1}
TextOfLength(n) == [k \in 1..n |-> k]

AddResult ==
    /\ calls < MaxAdds
    /\ \E u \in Users : \E n \in ResultLengths :
         LET us == get_user_session(user_sessions, u)
             result == TextOfLength(n) IN
           /\ user_sessions' =
                 [us EXCEPT ![u] = add_to_history(@, "/ask", calls + 1, result, now)]
           /\ probe' = [probe EXCEPT !.calls = <<[user |-> u, result |-> result]>>]
    /\ calls' = calls + 1
    /\ UNCHANGED <<registry, stats, attempts, now, pc, op, i, log, last, ret, reply,
                   stats0, results, other, boot, handler>>

PreviewNext == AddResult

PreviewSpec == WideInit /\ [][PreviewNext]_vars

----------------------------------------------------------------------------
(* The command handlers over one generate call: gen, ask, chat, summarize,   *)
(* translate, code, explain; and the three that walk the registry            *)
(* themselves: genfast, genall, askall. A handler answers a command without  *)
(* arguments with its usage line; otherwise it sends a status message, runs  *)
(* its generate call or its loop and ends with the answer or with its        *)
(* failure text.                                                             *)

Handlers == {"gen", "ask", "chat", "summarize", "translate", "code", "explain"}

\* Every generation command.
Commands == Handlers \cup CommandOps

\* The handlers that fetch the user's session and record a success in it.
SessionCommands == {"gen", "ask", "chat"}

OperationOf(cmd) ==
    IF cmd = "gen" THEN "gen_image" ELSE IF cmd \in CommandOps THEN cmd ELSE "gen_text"

\* The command as add_to_history is given it.
CommandName(cmd) ==
    CASE cmd = "gen" -> "/gen"
      [] cmd = "ask" -> "/ask"
      [] cmd = "chat" -> "/chat"
      [] OTHER -> "-"

\* context.args: the words after the command; a word is one character here.
ArgLists == {<<>>, <<"a", "b">>}

\* ' '.join(context.args)
RECURSIVE Join(_)
Join(args) ==
    IF args = <<>> THEN <<>>
    ELSE IF Len(args) = 1 THEN <<args[1]>>
    ELSE <<args[1], " ">> \o Join(Tail(args))

\* Variant: the handler does not look at its arguments.
NoArgs_Never(args) == FALSE

\* `if not context.args:`
NoArgs(args) == args = <<>>

\* Variant: the entries of every command are taken.
Recent_Unfiltered(h) ==
    LET last3 == LastN(h, 3) IN [k \in 1..Len(last3) |-> last3[k].prompt]

\* The prompts chat_command puts into its system message: of the last three
\* entries of the history, those of /ask and /chat, in order.
Recent(h) ==
    LET last3 == LastN(h, 3)
        kept == SelectSeq(last3, LAMBDA e : e.command \in {"/ask", "/chat"}) IN
      [k \in 1..Len(kept) |-> kept[k].prompt]

\* A message to the user: its kind, the command it belongs to, and whatever
\* of a provider it carries (the name and payload of the success; nothing in
\* the fixed texts).
Message(kind, cmd, carried) == [kind |-> kind, cmd |-> cmd, carried |-> carried]

\* A provider's name as a text.
Digits == <<"1", "2", "3", "4", "5", "6">>
NameText(name) ==
    LET k == CHOOSE j \in 1..Len(ImageNames) : ImageNames[j] = name \/ TextNames[j] = name IN
      <<IF ImageNames[k] = name THEN "I" ELSE "T", Digits[k]>>

\* Variant: the failure text quotes what the last provider did.
FailureReply_LastError(cmd, lg) ==
    Message("failure", cmd, IF lg = <<>> THEN <<>> ELSE <<lg[Len(lg)]>>)

\* The else branch of `if image_bytes:` / `if answer:`: a literal.
FailureReply(cmd, lg) == Message("failure", cmd, <<>>)

\* Variant: len(answer) is taken before answer is tested.
HandlerResult_LenFirst(cmd, r, lg) ==
    IF r.payload.tag = "none"
    THEN [raises |-> TRUE, msg |-> Message("none", cmd, <<>>), history |-> FALSE]
    ELSE [raises |-> FALSE, msg |-> Message("answer", cmd, <<r>>),
          history |-> cmd \in SessionCommands]

\* Variant: the success is answered but not recorded.
HandlerResult_NoHistory(cmd, r, lg) ==
    IF Truthy(r.payload)
    THEN [raises |-> FALSE, msg |-> Message("answer", cmd, <<r>>), history |-> FALSE]
    ELSE [raises |-> FALSE, msg |-> FailureReply(cmd, lg), history |-> FALSE]

\* What the handler does with the tuple the generate call returned.
HandlerResult(cmd, r, lg) ==
    IF Truthy(r.payload)
    THEN [raises |-> FALSE, msg |-> Message("answer", cmd, <<r>>),
          history |-> cmd \in SessionCommands]
    ELSE [raises |-> FALSE, msg |-> FailureReply(cmd, lg), history |-> FALSE]

\* error_handler: the reply to an update whose handler raised.
InternalError(cmd) == Message("internal_error", cmd, <<>>)

\* genall_command sends the first five collected images.
GenallShown == 5

\* What genfast_command, genall_command and askall_command send after their
\* loop, from the reply the loop ended with and the names collected.
CollectResult(cmd, rp, rs, lg) ==
    CASE rp = "photo" ->
           [raises |-> FALSE, msgs |-> <<Message("photo", cmd, <<lg[Len(lg)].name>>)>>]
      [] rp = "photos" ->
           [raises |-> FALSE,
            msgs |-> <<Message("report", cmd, <<Len(rs), Len(image_providers)>>)>> \o
                     [k \in 1..Len(Take(rs, GenallShown)) |-> Message("photo", cmd, <<rs[k]>>)] \o
                     (IF Len(rs) > GenallShown
                      THEN <<Message("omitted", cmd, <<Len(rs) - GenallShown>>)>> ELSE <<>>)]
      [] rp = "NameError" ->
           [raises |-> TRUE,
            msgs |-> <<Message("report", cmd, <<Len(rs), Len(image_providers)>>)>>]
      [] rp = "answers" ->
           [raises |-> FALSE, msgs |-> <<Message("answers", cmd, rs)>>]
      [] OTHER ->
           [raises |-> FALSE, msgs |-> <<Message("failure", cmd, <<>>)>>]

HandlerReceive ==
    /\ pc \in {"idle", "done"}
    /\ handler.phase \in {"-", "replied", "raised"}
    /\ calls < MaxCalls
    /\ \E cmd \in Commands : \E u \in Users : \E args \in ArgLists :
         IF NoArgs(args)
         THEN /\ handler' = [cmd |-> cmd, user |-> u, phase |-> "replied",
                             sent |-> <<Message("usage", cmd, <<>>)>>,
                             prompt |-> <<>>, recent |-> <<>>]
              /\ user_sessions' = user_sessions
         ELSE LET us == IF cmd \in SessionCommands
                        THEN get_user_session(user_sessions, u)
                        ELSE user_sessions IN
              /\ handler' = [cmd |-> cmd, user |-> u, phase |-> "received",
                             sent |-> <<Message("status", cmd, <<>>)>>,
                             prompt |-> Join(args),
                             recent |-> IF cmd = "chat" THEN Recent(us[u].history) ELSE <<>>]
              /\ user_sessions' = us
    /\ pc' = "idle"
    /\ UNCHANGED <<registry, stats, attempts, now, op, i, log, last, ret, reply,
                   stats0, calls, results, other, boot, probe>>

\* The handler reaches its generate call or its loop with the prompt.
HandlerCall ==
    /\ handler.phase = "received"
    /\ pc = "idle"
    /\ Start(OperationOf(handler.cmd))

HandlerReply ==
    /\ handler.phase = "received"
    /\ pc = "done"
    /\ LET cmd == handler.cmd
           u == handler.user
           r == HandlerResult(cmd, ret, log)
           out == IF cmd \in Handlers
                  THEN [raises |-> r.raises, msgs |-> IF r.raises THEN <<>> ELSE <<r.msg>>]
                  ELSE CollectResult(cmd, reply, results, log) IN
         /\ handler' = [handler EXCEPT
                          !.phase = IF out.raises THEN "raised" ELSE "replied",
                          !.sent = @ \o out.msgs \o
                                   (IF out.raises THEN <<InternalError(cmd)>> ELSE <<>>)]
         /\ reply' = IF cmd \notin Handlers THEN reply
                     ELSE IF r.raises THEN "internal_error" ELSE r.msg.kind
         /\ user_sessions' =
               IF cmd \in Handlers /\ ~r.raises /\ r.history
               THEN [user_sessions EXCEPT ![u] =
                       add_to_history(@, CommandName(cmd), handler.prompt,
                                      NameText(ret.name), now)]
               ELSE user_sessions
    /\ UNCHANGED <<registry, stats, attempts, now, pc, op, i, log, last, ret,
                   stats0, calls, results, other, boot, probe>>

HandlerNext ==
    \/ HandlerReceive
    \/ HandlerCall
    \/ GenerateAttempt
    \/ GenerateExhausted
    \/ GenfastAttempt
    \/ GenfastEnd
    \/ GenallAttempt
    \/ GenallEnd
    \/ AskallAttempt
    \/ AskallEnd
    \/ HandlerReply

\* Two providers of each capability, no session yet.
HandlerInit ==
    /\ image_providers = SortByPriority(Numbered("image", 2))
    /\ text_providers = SortByPriority(Numbered("text", 2))
    /\ stats = [n \in Registered |-> InitialStats]
    /\ attempts = [n \in Registered |-> 0]
    /\ now = 0
    /\ pc = "idle"
    /\ op = "-"
    /\ i = 0
    /\ log = <<>>
    /\ last = NoneValue
    /\ ret = NoResult
    /\ reply = "-"
    /\ stats0 = stats
    /\ calls = 0
    /\ results = <<>>
    /\ user_sessions = NoSessions
    /\ other = NoCall
    /\ boot = NoBoot
    /\ handler = NoHandler
    /\ probe = NoProbe

HandlerSpec == HandlerInit /\ [][HandlerNext]_vars

\* One more command on a process in which user 1 has a history already: up to
\* MaxHistory commands of gen, ask and chat, each answered by the first
\* provider of its capability, the k-th at time k with the prompt "p<k>".
MaxHistory == 4
Histories == UNION {[1..n -> {"/gen", "/ask", "/chat"}] : n \in 0..MaxHistory}
PromptOf(k) == <<"p", Digits[k]>>
Times(cmds, S) == {k \in 1..Len(cmds) : cmds[k] \in S}
Latest(T) == CHOOSE k \in T : \A m \in T : m <= k
Used(T) == IF T = {} THEN InitialStats
           ELSE [success |-> Cardinality(T), failure |-> 0, last_used |-> <<Latest(T)>>]

ChatInit ==
    \E cmds \in Histories :
        LET first(c) == NameOf(IF c = "/gen" THEN "image" ELSE "text", 1)
            images == Times(cmds, {"/gen"})
            texts == Times(cmds, {"/ask", "/chat"})
            h == [k \in 1..Len(cmds) |->
                    [timestamp |-> k, command |-> cmds[k], prompt |-> PromptOf(k),
                     result_preview |-> NameText(first(cmds[k]))]] IN
          /\ image_providers = SortByPriority(Numbered("image", 2))
          /\ text_providers = SortByPriority(Numbered("text", 2))
          /\ stats = [n \in Registered |->
                        IF n = NameOf("image", 1) THEN Used(images)
                        ELSE IF n = NameOf("text", 1) THEN Used(texts)
                        ELSE InitialStats]
          /\ attempts = [n \in Registered |-> stats[n].success]
          /\ now = Len(cmds)
          /\ user_sessions = IF cmds = <<>> THEN NoSessions
                             ELSE (1 :> [user_id |-> 1, history |-> h, added |-> Len(h)])
          /\ calls = MaxCalls - 1
    /\ pc = "idle"
    /\ op = "-"
    /\ i = 0
    /\ log = <<>>
    /\ last = NoneValue
    /\ ret = NoResult
    /\ reply = "-"
    /\ stats0 = stats
    /\ results = <<>>
    /\ other = NoCall
    /\ boot = NoBoot
    /\ handler = NoHandler
    /\ probe = NoProbe

ChatSpec == ChatInit /\ [][HandlerNext]_vars

(* The health server: run_health_server in a daemon thread started by main   *)
(* before the bot, an HTTPServer that serves one GET at a time beside the    *)
(* command in flight.                                                        *)

\* self.path of the requests: the request target as sent, query string included.
Paths == {"/", "/health", "/health?x", "/stats"}

\* Variant: every path is answered as the health path.
do_GET_AnyPath(path) ==
    [status |-> 200, headers |-> <<<<"Content-type", "text/plain">>>>, body |-> <<"O", "K">>]

\* HealthHandler.do_GET: what goes out on the connection.
do_GET(path) ==
    IF path = "/health" \/ path = "/"
    THEN [status |-> 200, headers |-> <<<<"Content-type", "text/plain">>>>,
          body |-> <<"O", "K">>]
    ELSE [status |-> 404, headers |-> <<>>, body |-> <<>>]

\* One GET served, at any point of the command in flight.
HealthGet ==
    /\ \E path \in Paths :
         probe' = [probe EXCEPT !.calls = <<[path |-> path, response |-> do_GET(path)]>>]
    /\ UNCHANGED <<registry, stats, attempts, now, pc, op, i, log, last, ret, reply,
                   stats0, calls, results, user_sessions, other, boot, handler>>

HealthNext == HandlerNext \/ HealthGet

\* The server beside a process whose providers and sessions are in use.
HealthSpec == ChatInit /\ [][HealthNext]_vars

----------------------------------------------------------------------------
(* Properties *)

InGenerate == op \in GenerateOps /\ pc \in {"running", "done"}
Returned == op \in GenerateOps /\ pc = "done"
Succeeded == Returned /\ ret.name # AllFailedName
List == Candidates(op)

\* The counters of provider n moved by (ds, df) since the operation started.
Delta(n, ds, df) ==
    /\ stats[n].success = stats0[n].success + ds
    /\ stats[n].failure = stats0[n].failure + df

\* C1: short-circuit. In a generate call a provider that returned a non-empty
\* result is the last one attempted in that call and the call has returned;
\* if the first provider succeeded, it is the only one attempted.
C1_ShortCircuit ==
    InGenerate =>
        \A j \in 1..Len(log) :
            log[j].ok => /\ j = Len(log)
                         /\ pc = "done"
                         /\ ret = [payload |-> Value(log[j].name), name |-> log[j].name]

\* A generate call returned on a success while later providers were left untried.
C1_Witness ==
    /\ Returned
    /\ Len(log) >= 1
    /\ log[Len(log)].ok
    /\ Len(log) < Len(List)

\* C2: fault isolation. Every failed attempt of a generate call, whether the
\* provider returned nothing or raised, records exactly one failure for that
\* provider, changes no other counter, and leaves the call running at the
\* next provider of the list.
C2_FaultIsolation ==
    [][ (/\ pc = "running"
         /\ op \in GenerateOps
         /\ Len(log') = Len(log) + 1
         /\ ~log'[Len(log')].ok)
        => LET n == log'[Len(log')].name IN
             /\ n = List[i].name
             /\ stats'[n].failure = stats[n].failure + 1
             /\ stats'[n].success = stats[n].success
             /\ \A m \in (DOMAIN stats) \ {n} : stats'[m] = stats[m]
             /\ pc' = "running"
             /\ i' = i + 1
             /\ ret' = ret ]_vars

\* A provider raised in a generate call, its failure is recorded and the call
\* goes on with a provider that is still to be tried.
C2_Witness ==
    /\ op \in GenerateOps
    /\ pc = "running"
    /\ last.tag = "raise"
    /\ Len(log) >= 1
    /\ Delta(log[Len(log)].name, 0, 1)
    /\ i <= Len(List)

LastIsBackstop == Len(List) > 0 /\ List[Len(List)].kind = "backstop"

\* C3: backstop guarantee. When the last provider of the list is the backstop
\* (PIL Fallback, Simple Fallback), a generate call never returns
\* AllProvidersFailed, and when every earlier provider failed it returns the
\* backstop's result under the backstop's name.
C3_BackstopGuarantee ==
    (Returned /\ LastIsBackstop) =>
        /\ ret # AllProvidersFailed
        /\ Len(log) = Len(List) =>
              ret = [payload |-> Value(List[Len(List)].name),
                     name |-> List[Len(List)].name]

\* C4: per-call accounting. When the k-th provider is the first to return a
\* non-empty result, the k-1 earlier ones each gained exactly one failure, the
\* k-th exactly one success, and the later ones are unchanged.
C4_PerCallStats ==
    Succeeded =>
        LET k == Len(log) IN
          /\ k >= 1
          /\ log[k].ok
          /\ ret.name = List[k].name
          /\ \A j \in 1..(k - 1) : ~log[j].ok /\ Delta(List[j].name, 0, 1)
          /\ Delta(List[k].name, 1, 0)
          /\ \A j \in (k + 1)..Len(List) : stats[List[j].name] = stats0[List[j].name]

\* The scenario of the specification: the first of three text providers fails,
\* the second raises, the third, the backstop, answers.
C4_Witness ==
    /\ Returned
    /\ op = "gen_text"
    /\ calls = 1
    /\ Len(log) = 3
    /\ last.tag = "value"
    /\ List[3].kind = "backstop"
    /\ ret.name = List[3].name
    /\ stats[List[1].name].failure = 1
    /\ stats[List[2].name].failure = 1
    /\ stats[List[3].name].success = 1

AllFailedInCall == Len(log) = Len(List) /\ \A j \in 1..Len(log) : ~log[j].ok

\* C5: exhaustion. A generate call returns (None, "All providers failed") if
\* and only if every provider of the list was attempted and none gave a
\* result; then each was attempted once, in order, and gained one failure.
C5_Exhaustion ==
    Returned =>
        /\ (ret = AllProvidersFailed) <=> AllFailedInCall
        /\ (ret.name = AllFailedName) <=> (ret = AllProvidersFailed)
        /\ (ret = AllProvidersFailed) =>
              \A j \in 1..Len(List) :
                  /\ log[j].name = List[j].name
                  /\ Delta(List[j].name, 0, 1)

\* A generate call over at least two providers ended with every one failed.
C5_Witness ==
    /\ Returned
    /\ ret = AllProvidersFailed
    /\ Len(List) >= 2
    /\ Len(log) = Len(List)

\* C6: empty registry. With no provider of the capability, a generate call
\* attempts nothing, changes no statistics and returns
\* (None, "All providers failed").
C6_EmptyRegistry ==
    (InGenerate /\ Len(List) = 0) =>
        /\ log = <<>>
        /\ stats = stats0
        /\ pc = "done" => (ret.payload.tag = "none" /\ ret.name = "All providers failed")

\* A generate call on the empty image registry returned while text providers
\* are registered.
C6_Witness ==
    /\ Returned
    /\ op = "gen_image"
    /\ image_providers = <<>>
    /\ text_providers # <<>>
    /\ ret = AllProvidersFailed

\* C7: attempt order. The attempts of a generate call are the first providers
\* of the list, in list order, hence by ascending priority; each but the
\* latest has failed, and the loop stands right after the latest.
C7_AttemptOrder ==
    InGenerate =>
        /\ Len(log) <= Len(List)
        /\ \A j \in 1..Len(log) : log[j].name = List[j].name
        /\ \A j \in 1..(Len(log) - 1) : ~log[j].ok
        /\ \A a, b \in 1..Len(log) : a < b => List[a].priority <= List[b].priority
        /\ pc = "running" => i = Len(log) + 1

\* Two providers of different priorities were attempted, the one registered
\* second first.
C7_Witness ==
    /\ InGenerate
    /\ Len(log) >= 2
    /\ List[1].priority < List[2].priority
    /\ log[1].name \in {"I2", "T2"}

\* C8: registry order. Both provider lists are sorted by non-decreasing
\* priority in every state.
C8_RegistrySorted == Sorted(image_providers) /\ Sorted(text_providers)

\* Operations have run on a registry whose registration order was not the
\* priority order and which holds equal priorities.
C8_Witness ==
    /\ pc = "done"
    /\ calls = MaxCalls
    /\ Len(image_providers) = 3
    /\ image_providers[1].name = "I3"
    /\ image_providers[2].priority = image_providers[3].priority

\* C9: attempt accounting. For every provider success + failure equals the
\* number of times its attempt was invoked, whatever operations ran.
C9_AttemptAccounting ==
    \A n \in Registered : stats[n].success + stats[n].failure = attempts[n]

\* C10: monotonicity. No step lowers or resets a provider's success or
\* failure counter, or drops a provider's statistics.
C10_StatsMonotone ==
    [][ /\ DOMAIN stats' = DOMAIN stats
        /\ \A n \in DOMAIN stats :
              /\ stats'[n].success >= stats[n].success
              /\ stats'[n].failure >= stats[n].failure ]_vars

\* A provider that failed in one call succeeded in a later one and kept both.
C10_Witness ==
    \E n \in Registered : stats[n].failure >= 1 /\ stats[n].success >= 1

\* The names of the providers registered for the capability of the call.
OfCapability ==
    IF op = "gen_image" THEN NamesOf(image_providers) ELSE NamesOf(text_providers)

\* C18: result shape. A generate call returns either a non-empty payload with
\* the name of a provider registered for that capability, or
\* (None, "All providers failed"), never both and nothing else; nothing is
\* returned while the loop runs, and no exception of a provider leaves the call.
C18_ResultShape ==
    /\ (InGenerate /\ pc = "running") => ret = NoResult
    /\ Returned =>
          /\ ret.name # "exception"
          /\ ret.payload.tag # "raise"
          /\ \/ ret.payload.tag = "none" /\ ret.name = "All providers failed"
             \/ Truthy(ret.payload) /\ ret.name \in OfCapability
          /\ ~(ret.name = "All providers failed" /\ ret.name \in OfCapability)

\* The latest provider of a second generate call raised, and the call still
\* returned the all-failed result.
C18_Witness ==
    /\ Returned
    /\ calls = 2
    /\ last.tag = "raise"
    /\ ret.payload.tag = "none"
    /\ ret.name = "All providers failed"

\* C19: result attribution. The payload a generate call returns is the value
\* produced by the first provider of the list whose attempt was non-empty, and
\* the returned name is the name of that provider.
C19_ResultAttribution ==
    Succeeded =>
        \E k \in 1..Len(log) :
            /\ log[k].ok
            /\ \A j \in 1..(k - 1) : ~log[j].ok
            /\ ret.name = List[k].name
            /\ ret.payload = Value(List[k].name)
            /\ ret.payload = last

\* Of two providers of equal priority the one registered first failed and the
\* result is attributed to the second.
C19_Witness ==
    /\ Succeeded
    /\ Len(log) = 2
    /\ List[1].priority = List[2].priority
    /\ ret.name = List[2].name
    /\ ret.payload.by = List[2].name

\* C20: no retry. Within one generate call no provider is attempted twice: the
\* names of the attempts are pairwise different, and every failed provider
\* lies behind the position of the loop.
C20_NoRetry ==
    InGenerate =>
        /\ \A a, b \in 1..Len(log) : a # b => log[a].name # log[b].name
        /\ pc = "running" =>
              \A j \in 1..Len(log) : \A k \in i..Len(List) : List[k].name # log[j].name

\* Three providers failed one after another in one generate call, each once.
C20_Witness ==
    /\ InGenerate
    /\ Len(log) = 3
    /\ \A j \in 1..3 : ~log[j].ok
    /\ \A n \in NamesOf(List) : attempts[n] >= 1

InCollect == op \in {"genall", "askall"} /\ pc = "done"

\* The names of the successful attempts of a log, in order.
RECURSIVE OkNames(_)
OkNames(l) ==
    IF l = <<>> THEN <<>>
    ELSE (IF Head(l).ok THEN <<Head(l).name>> ELSE <<>>) \o OkNames(Tail(l))

C12_GenfastShortCircuit ==
    (op = "genfast" /\ pc \in {"running", "done"}) =>
        /\ Len(log) <= 3
        /\ \A j \in 1..Len(log) : log[j].name = image_providers[j].name
        /\ \A j \in 1..Len(log) :
              log[j].ok => (j = Len(log) /\ pc = "done" /\ reply = "photo")
        /\ (reply = "fast_failed") => \A j \in 1..Len(log) : ~log[j].ok

\* C17: history bound and FIFO eviction. After n add_to_history calls a
\* session holds exactly the most recent min(n, 50) entries, oldest first, and
\* never more than 50.
C17_HistoryBound ==
    \A u \in DOMAIN user_sessions :
        LET h == user_sessions[u].history
            n == user_sessions[u].added IN
          /\ Len(h) <= 50
          /\ Len(h) = (IF n < 50 THEN n ELSE 50)
          /\ \A k \in 1..Len(h) : h[k].prompt = n - Len(h) + k

\* After 60 entries one session holds the entries 11..60 while another session
\* is still below the limit.
C17_Witness ==
    \E u, v \in DOMAIN user_sessions :
        /\ user_sessions[u].added = 60
        /\ Len(user_sessions[u].history) = 50
        /\ user_sessions[u].history[1].prompt = 11
        /\ user_sessions[u].history[50].prompt = 60
        /\ user_sessions[v].added = 7
        /\ Len(user_sessions[v].history) = 7

\* A step the generate call in flight takes by itself.
OwnStep == GenerateInvoke \/ GenerateResume \/ GenerateExhausted

Unreturned == op \in GenerateOps /\ pc \in {"running", "awaiting", "hung"}

C15_NotSerialized ==
    (op \in GenerateOps /\ pc \in {"awaiting", "hung"} /\ calls < MaxCalls)
        => ENABLED StartGenerate

\* C16: cancellation. Once a generate call is cancelled at its await the call
\* is over with CancelledError and no provider behind the one in flight was
\* attempted; every attempt that completed before has exactly one failure
\* recorded, the one in flight has none, and the rest of the statistics are
\* as they were when the call started.
C16_Cancellation ==
    (op \in GenerateOps /\ last.tag = "cancel") =>
        /\ pc = "done"
        /\ ret.name = "CancelledError"
        /\ i <= Len(List)
        /\ Len(log) = i - 1
        /\ \A j \in 1..(i - 1) : log[j].name = List[j].name /\ Delta(List[j].name, 0, 1)
        /\ \A n \in (DOMAIN stats) \ {List[j].name : j \in 1..(i - 1)} : stats[n] = stats0[n]

\* A second generate call was cancelled during the attempt of its second
\* provider, after the first had failed and with a third never attempted.
C16_Witness ==
    /\ op \in GenerateOps
    /\ last.tag = "cancel"
    /\ calls = 2
    /\ i = 2
    /\ Len(List) = 3
    /\ Len(log) = 1
    /\ stats[List[1].name].failure = stats0[List[1].name].failure + 1
    /\ attempts[List[2].name] >= 1
    /\ stats[List[3].name] = stats0[List[3].name]

\* The attempts of provider n in a log that ended with the outcome ok.
Count(l, n, ok) == Cardinality({j \in 1..Len(l) : l[j].name = n /\ l[j].ok = ok})

\* C14: no lost update. However two generate calls interleave, each provider's
\* success and failure counters equal the numbers of successes and failures
\* its attempts ended with in all the calls, at every moment and so when all
\* calls have finished.
C14_NoLostUpdate ==
    \A n \in Registered :
        /\ stats[n].success = Count(log, n, TRUE) + other.oks[n]
        /\ stats[n].failure = Count(log, n, FALSE) + other.fails[n]

\* Both calls walked the two image providers and all four attempts failed;
\* the second call invoked the second provider after the first call had
\* recorded the first provider and before it recorded the second.
C14_Witness ==
    /\ pc = "done"
    /\ other.pc = "done"
    /\ op = "gen_image"
    /\ other.op = "gen_image"
    /\ other.calls = 1
    /\ \A k \in 1..2 : stats[image_providers[k].name].failure = 2
    /\ other.seen[image_providers[1].name].failure = 2
    /\ other.seen[image_providers[2].name].failure = 0

AsWritten == boot.image = FixedImages /\ boot.text = FixedTexts

\* C21: registry initialization. For the configuration as written the build
\* never fails, and when it is over the image list holds the 9 and the text
\* list the 10 configured providers, each with its name, capability and
\* priority, the backstops PIL Fallback and Simple Fallback last.
C21_RegistryInitialization ==
    AsWritten =>
        /\ pc # "crashed"
        /\ pc = "idle" =>
              /\ Len(image_providers) = 9
              /\ Len(text_providers) = 10
              /\ \A k \in 1..9 :
                    /\ image_providers[k].name = FixedImages[k].name
                    /\ image_providers[k].priority = FixedImages[k].priority
                    /\ image_providers[k].ptype = "image"
              /\ \A k \in 1..10 :
                    /\ text_providers[k].name = FixedTexts[k].name
                    /\ text_providers[k].priority = FixedTexts[k].priority
                    /\ text_providers[k].ptype = "text"
              /\ image_providers[9].name = "PIL Fallback"
              /\ text_providers[10].name = "Simple Fallback"

----------------------------------------------------------------------------
(* The provider methods called directly (AttemptSpec) *)

Made == {probe.calls[k] : k \in 1..Len(probe.calls)}
OwnMethod(c) == c.method = CapabilityOf(c.cls)
Faults == {"unreachable", "timeout", "malformed", "undecodable"}

C27_MismatchIsNoOp ==
    [][(probe'.calls # probe.calls /\ ~OwnMethod(probe'.calls[1])) =>
          /\ probe'.calls[1].returned = NoPayload("none")
          /\ probe'.rng = probe.rng
          /\ UNCHANGED <<registry, stats, attempts, user_sessions>>]_vars

C27_Witness ==
    \E c \in Made :
        /\ c.cls = "PuterImageProvider" /\ c.method = "text"
        /\ c.returned = NoPayload("none")
Backstops == {"PILImageProvider", "RuleBasedProvider"}
BackstopCall(c) == c.cls \in Backstops /\ OwnMethod(c) /\ c.event = "ok"

----------------------------------------------------------------------------
(* update_stats *)

Updated(n) == stats'[n] # stats[n]

\* C24: recording an outcome for a provider adds exactly 1 to exactly one of
\* its two counters, leaves the other as it was, sets its last_used to the
\* time of the call, and changes the statistics of no other provider.
C24_UpdateStatsFrame ==
    [][\A n \in Registered :
          Updated(n) =>
            /\ \/ stats'[n].success = stats[n].success + 1 /\ stats'[n].failure = stats[n].failure
               \/ stats'[n].failure = stats[n].failure + 1 /\ stats'[n].success = stats[n].success
            /\ stats'[n].last_used = <<now'>>
            /\ \A m \in Registered \ {n} : ~Updated(m)]_vars

\* A provider with a recorded failure and a recorded success, next to one
\* with a failure only and one never used.
C24_Witness ==
    \E n, m, k \in Registered :
        /\ stats[n].success = 1 /\ stats[n].failure = 1
        /\ stats[m].success = 0 /\ stats[m].failure >= 1
        /\ stats[k] = InitialStats
----------------------------------------------------------------------------
(* The order of the registry *)

\* The place of a provider in the registration list of its capability.
RegIndex(name) ==
    CHOOSE k \in 1..Len(ImageNames) : ImageNames[k] = name \/ TextNames[k] = name

KeepsRegistrationOrder(s) ==
    \A a, b \in 1..Len(s) :
        (a < b /\ s[a].priority = s[b].priority) => RegIndex(s[a].name) < RegIndex(s[b].name)

\* C28: providers of equal priority stand in the registry in the order they
\* were registered in.
C28_StableTies ==
    KeepsRegistrationOrder(image_providers) /\ KeepsRegistrationOrder(text_providers)

\* The provider registered first has the largest priority and the two after
\* it tie: the sort moved them ahead of it, in their registration order.
C28_Witness ==
    /\ Len(image_providers) = 3
    /\ image_providers[1].name = "I2" /\ image_providers[2].name = "I3"
    /\ image_providers[3].name = "I1"
    /\ image_providers[1].priority = image_providers[2].priority
    /\ pc = "done"
----------------------------------------------------------------------------
(* The registry under the operations and the introspection commands         *)
(* (IntrospectSpec)                                                         *)

RecordOf(p, st) ==
    [name |-> p.name, success |-> st[p.name].success,
     failure |-> st[p.name].failure, last_used |-> st[p.name].last_used]

\* C26: get_stats returns, for each capability, one record per registered
\* provider in registry order, with the provider's success, failure and
\* last_used of the moment of the call; a snapshot that was returned is not
\* changed by later updates of the statistics.
C26_StatsSnapshot ==
    probe.snapshot # <<>> =>
        LET sn == probe.snapshot[1] IN
          /\ Len(sn.stats.image) = Len(image_providers)
          /\ Len(sn.stats.text) = Len(text_providers)
          /\ \A k \in 1..Len(image_providers) :
                sn.stats.image[k] = RecordOf(image_providers[k], sn.taken)
          /\ \A k \in 1..Len(text_providers) :
                sn.stats.text[k] = RecordOf(text_providers[k], sn.taken)

\* A snapshot with a used provider in it, and statistics that moved on since.
C26_Witness ==
    /\ probe.snapshot # <<>>
    /\ \E k \in 1..Len(image_providers) :
          /\ probe.snapshot[1].stats.image[k].failure = 1
          /\ stats[image_providers[k].name].failure = 2
    /\ \E k \in 1..Len(text_providers) : probe.snapshot[1].stats.text[k].success = 0
----------------------------------------------------------------------------
(* The command handlers (HandlerSpec) *)

Answered == handler.phase \in {"replied", "raised"} /\ pc = "done"

\* C29: when the generate call of gen, ask, chat, summarize, translate, code
\* or explain returned "All providers failed", the handler ends by sending
\* its fixed failure text and raises nothing; and no message to the user
\* carries anything of a provider but the name and payload of a success.
C29_FailureReplyIsFixed ==
    /\ (Answered /\ ret = AllProvidersFailed) =>
          /\ handler.phase = "replied"
          /\ handler.sent[Len(handler.sent)] = [kind |-> "failure", cmd |-> handler.cmd,
                                                carried |-> <<>>]
    /\ \A k \in 1..Len(handler.sent) :
          (handler.cmd \in Handlers /\ handler.sent[k].carried # <<>>) =>
              /\ handler.sent[k].kind = "answer"
              /\ handler.sent[k].carried = <<ret>>
              /\ ret.payload.tag = "value"

\* chat answered with its failure text after every text provider failed, one
\* of them by raising inside the orchestrator's boundary.
C29_Witness ==
    /\ Answered
    /\ handler.cmd = "chat"
    /\ ret = AllProvidersFailed
    /\ Len(log) = Len(text_providers)
    /\ last = Raised
    /\ handler.sent[Len(handler.sent)].kind = "failure"
----------------------------------------------------------------------------
(* The result preview of a history entry (PreviewSpec) *)

\* C30: the result_preview of a stored entry is the first 100 characters of
\* the result given to add_to_history: the whole result when it is shorter,
\* the empty text when none is given; no stored preview is longer than 100,
\* and the entries stored before are kept as they are.
C30_ResultPreview ==
    [][probe'.calls # probe.calls =>
          LET u == probe'.calls[1].user
              given == probe'.calls[1].result
              before == IF u \in DOMAIN user_sessions THEN user_sessions[u].history ELSE <<>>
              h == user_sessions'[u].history IN
            /\ Len(h) = Len(before) + 1
            /\ SubSeq(h, 1, Len(before)) = before
            /\ h[Len(h)].result_preview =
                  IF Len(given) <= 100 THEN given ELSE SubSeq(given, 1, 100)
            /\ \A k \in 1..Len(h) : Len(h[k].result_preview) <= 100]_vars

\* One session holds a preview cut to 100 characters from a result of 101,
\* an empty preview and a short result kept whole.
C30_Witness ==
    \E u \in DOMAIN user_sessions :
        LET h == user_sessions[u].history IN
          /\ Len(h) = 3
          /\ h[1].result_preview = <<>>
          /\ h[2].result_preview = <<1, 2>>
          /\ Len(h[3].result_preview) = 100
          /\ Len(probe.calls[1].result) = 101
\* C31: a generation command given no arguments answers with its usage line
\* and returns: no provider is attempted, the generate call and the loops are
\* never reached with an empty prompt, and neither the statistics nor any
\* history changes.
C31_NonEmptyPrompt ==
    [][handler'.prompt = <<>> =>
          /\ handler'.phase # "received"
          /\ pc' = "idle"
          /\ handler' # handler =>
                /\ handler'.phase = "replied"
                /\ handler'.sent = <<[kind |-> "usage", cmd |-> handler'.cmd,
                                      carried |-> <<>>]>>
          /\ UNCHANGED <<registry, stats, attempts, user_sessions>>]_vars

\* gen without arguments from a user who has no session, after a command that
\* attempted providers.
C31_Witness ==
    /\ handler.cmd = "gen"
    /\ handler.phase = "replied"
    /\ handler.sent[1].kind = "usage"
    /\ handler.user \notin DOMAIN user_sessions
    /\ calls = 1
    /\ \E n \in Registered : attempts[n] > 0
----------------------------------------------------------------------------
(* askall_command and genall_command *)

C33_GenallCompletes ==
    (Answered /\ handler.cmd = "genall" /\ Len(results) > 0) =>
        LET shown == IF Len(results) < 5 THEN Len(results) ELSE 5 IN
          /\ handler.phase = "replied"
          /\ Len(handler.sent) >= 2 + shown
          /\ handler.sent[2] = [kind |-> "report", cmd |-> "genall",
                                carried |-> <<Len(results), Len(image_providers)>>]
          /\ \A k \in 1..shown :
                handler.sent[2 + k] = [kind |-> "photo", cmd |-> "genall",
                                      carried |-> <<results[k]>>]
----------------------------------------------------------------------------
(* The sessions under the handlers (HandlerSpec) *)

Replying == handler.phase = "received" /\ handler'.phase \in {"replied", "raised"}

HistoryOf(us, u) == IF u \in DOMAIN us THEN us[u].history ELSE <<>>

C35_SessionIsolation ==
    [][/\ \A u \in DOMAIN user_sessions :
             /\ u \in DOMAIN user_sessions'
             /\ user_sessions'[u].user_id = u
             /\ \/ user_sessions'[u] = user_sessions[u]
                \/ /\ user_sessions'[u].added = user_sessions[u].added + 1
                   /\ Len(user_sessions'[u].history) = Len(user_sessions[u].history) + 1
                   /\ SubSeq(user_sessions'[u].history, 1, Len(user_sessions[u].history))
                         = user_sessions[u].history
       /\ \A u \in DOMAIN user_sessions' \ DOMAIN user_sessions :
             user_sessions'[u] = [user_id |-> u, history |-> <<>>, added |-> 0]
       /\ Cardinality({u \in Users :
                          HistoryOf(user_sessions', u) # HistoryOf(user_sessions, u)}) <= 1]_vars

\* Two users hold a session each, one with a /gen entry and the other, whose
\* command came second, with an /ask entry.
C35_Witness ==
    \E u, v \in DOMAIN user_sessions :
        /\ u # v
        /\ Len(user_sessions[u].history) = 1
        /\ user_sessions[u].history[1].command = "/gen"
        /\ Len(user_sessions[v].history) = 1
        /\ user_sessions[v].history[1].command = "/ask"
        /\ handler.user = v
----------------------------------------------------------------------------
(* last_used *)

\* C36: in every reachable state the last_used of a provider is unset if and
\* only if its success count and its failure count are both 0.
C36_LastUsedIffCounted ==
    \A n \in Registered :
        (stats[n].last_used = <<>>) <=> (stats[n].success + stats[n].failure = 0)

\* One provider has been counted and carries the time of it; another was
\* attempted by a command that records nothing and is still unset.
C36_Witness ==
    \E n, m \in Registered :
        /\ stats[n].success = 0 /\ stats[n].failure = 1
        /\ stats[n].last_used # <<>>
        /\ attempts[m] > 0
        /\ stats[m].last_used = <<>>
----------------------------------------------------------------------------
(* The context of chat_command (ChatSpec) *)

\* The entries of a history that are among its last three and belong to /ask
\* or /chat, by position.
Eligible(h) ==
    {k \in 1..Len(h) : k > Len(h) - 3 /\ h[k].command \in {"/ask", "/chat"}}

\* C37: the system context chat_command passes to its generate call holds
\* exactly the prompts of the entries of /ask and /chat among the last 3
\* entries of the user's history, in history order; no entry of another
\* command and no older entry is in it.
C37_ChatContext ==
    (handler.cmd = "chat" /\ handler.phase = "received") =>
        LET h == HistoryOf(user_sessions, handler.user)
            E == Eligible(h) IN
          /\ Len(handler.recent) = Cardinality(E)
          /\ \A k \in E :
                handler.recent[Cardinality({m \in E : m <= k})] = h[k].prompt

\* chat of the user whose history is /ask, /gen, /chat, /ask has reached its
\* generate call with the prompts of the third and fourth entry.
C37_Witness ==
    /\ handler.cmd = "chat" /\ handler.phase = "received" /\ pc = "running"
    /\ handler.user = 1
    /\ Len(HistoryOf(user_sessions, 1)) = 4
    /\ user_sessions[1].history[1].command = "/ask"
    /\ user_sessions[1].history[2].command = "/gen"
    /\ handler.recent = <<<<"p", "3">>, <<"p", "4">>>>

\* C38: a GET on '/' or on '/health' is answered with status 200, the header
\* Content-type: text/plain and the body OK; a GET on any other path is
\* answered with status 404; and serving a request leaves the registry, the
\* statistics of every provider and every user session as they were.
C38_HealthEndpoint ==
    [][probe' # probe =>
          /\ Len(probe'.calls) = 1
          /\ LET c == probe'.calls[1] IN
                IF c.path \in {"/", "/health"}
                THEN /\ c.response.status = 200
                     /\ c.response.headers = <<<<"Content-type", "text/plain">>>>
                     /\ c.response.body = <<"O", "K">>
                ELSE c.response.status = 404
          /\ UNCHANGED <<image_providers, text_providers, stats, attempts,
                         user_sessions, handler>>]_vars

\* Both answers given while a command is under way on used providers: the
\* health path and another path served in the middle of a generate call.
C38_Witness ==
    /\ pc = "running"
    /\ \E n \in DOMAIN stats : stats[n].failure > 0
    /\ \E u \in DOMAIN user_sessions : TRUE
    /\ Len(probe.calls) = 1
    /\ probe.calls[1].path = "/stats"
    /\ probe.calls[1].response.status = 404

====
